---------------------------- MODULE Spec2Model ----------------------------
(***************************************************************************)
(* StudyVault client scripts.  The search-suggestion controller            *)
(* (initSearchSuggestions) is a state machine over input events, the       *)
(* debounce timer, in-flight lookups, their responses and document clicks; *)
(* time is kept in milliseconds and advances in steps of TickMs.  The star *)
(* button, the rating input, the mobile nav, the alerts and                *)
(* validateFileSize are independent widgets: each has its own variables    *)
(* and its own specification, in which the other widgets stay idle.        *)
(***************************************************************************)
EXTENDS Integers, Sequences, FiniteSets

\* ------------------------------------------------------------------ bounds
\* Number of setTimeout calls (timer handles) one behaviour may create.
MaxTimers == 3
\* Granularity of the clock, in milliseconds.
TickMs == 100
\* The number of input events of one burst is counted up to this value.
BurstCap == 2

\* --------------------------------------------------------- program constants
\* setTimeout(..., 300)
Delay == 300
\* if (query.length < 2)
MinQueryLen == 2

\* ------------------------------------------------------------ pure helpers
Min(a, b) == IF a <= b THEN a ELSE b

RECURSIVE TrimStart(_)
TrimStart(s) ==
    IF s # <<>> /\ Head(s) = " " THEN TrimStart(Tail(s)) ELSE s

RECURSIVE TrimEnd(_)
TrimEnd(s) ==
    IF s # <<>> /\ s[Len(s)] = " " THEN TrimEnd(SubSeq(s, 1, Len(s) - 1)) ELSE s

\* String.prototype.trim on a sequence of characters.
Trim(s) == TrimEnd(TrimStart(s))

\* encodeURIComponent: letters are kept, a space becomes %20.
RECURSIVE EncodeURIComponent(_)
EncodeURIComponent(s) ==
    IF s = <<>> THEN <<>>
    ELSE (IF Head(s) = " " THEN <<"%", "2", "0">> ELSE <<Head(s)>>)
         \o EncodeURIComponent(Tail(s))

\* if (query.length < 2)
IsShortMutant(query) == Len(query) < MinQueryLen - 1
IsShort(query) == Len(query) < MinQueryLen

\* ------------------------------------------------- rendering a suggestion
\* item.type === 'folder' ? 'bi-folder' : 'bi-file-earmark'
IconOf(type) == IF type = "folder" THEN "bi-folder" ELSE "bi-file-earmark"

\* Index of the first double quote of s, or Len(s) + 1.
RECURSIVE FirstQuote(_, _)
FirstQuote(s, i) ==
    IF i > Len(s) THEN i
    ELSE IF s[i] = "\"" THEN i ELSE FirstQuote(s, i + 1)

\* Index of the first "<" of s that is followed by a letter, or Len(s) + 1.
RECURSIVE FirstTagOpen(_, _)
FirstTagOpen(s, i) ==
    IF i > Len(s) THEN i
    ELSE IF s[i] = "<" /\ i < Len(s) /\ s[i + 1] = "n" THEN i
    ELSE FirstTagOpen(s, i + 1)

\* href="${item.url}" as the HTML parser reads it back from innerHTML: the
\* double-quoted attribute value ends at the first double quote.
HrefOf(url) == SubSeq(url, 1, FirstQuote(url, 1) - 1)

\* ${item.name} as the HTML parser reads it back from innerHTML: the text of
\* the anchor ends where "<" followed by a letter opens a tag (a "<" followed
\* by anything else is text).
LabelOf(name) == SubSeq(name, 1, FirstTagOpen(name, 1) - 1)

\* One <a class="suggestion-item"> element of the parsed panel content.
Entry(item) ==
    [href |-> HrefOf(item.url), icon |-> IconOf(item.type), label |-> LabelOf(item.name)]

\* innerHTML = data.map(item => `...`).join('')
RenderItems(data) == [i \in 1..Len(data) |-> Entry(data[i])]

\* ------------------------------------------------------------ input domains
\* Texts the user may leave in the search field.
Values ==
    { <<"a">>, <<" ", "a", " ">>, <<"a", "b">>, <<" ", "a", " ", "b", " ">> }

Item1 == [name |-> <<"n">>, url |-> <<"n">>, type |-> "folder"]
Item2 == [name |-> <<"n", "n">>, url |-> <<"n", "n">>, type |-> "file"]
\* A suggestion whose name holds a tag opener and whose url holds a quote.
Item3 == [name |-> <<"n", "<", "n">>, url |-> <<"n", "\"", "n">>, type |-> "file"]

\* Suggestion arrays the endpoint may answer with.
Datas == { <<>>, <<Item1>>, <<Item1, Item2>>, <<Item3>> }

NoResp == [net |-> FALSE, status |-> 0, body |-> "none", data |-> <<>>]

\* What fetch may settle with: a transport failure (net = FALSE), or an HTTP
\* response of some status whose body is a JSON array, JSON that is no array,
\* or text that is no JSON.
Responses ==
    { [net |-> FALSE, status |-> 0, body |-> "malformed", data |-> <<>>] }
    \cup { [net |-> TRUE, status |-> s, body |-> "array", data |-> d] :
             s \in {200, 500}, d \in Datas }
    \cup { [net |-> TRUE, status |-> s, body |-> b, data |-> <<>>] :
             s \in {200, 500}, b \in {"object", "malformed"} }

\* ------------------------------------------------------------------- state
VARIABLES
    value,        \* searchInput.value
    timeout,      \* let timeout: the last handle stored (0: undefined)
    timers,       \* the live timers of the page: [id, left, query]
    nextId,       \* the handle the next setTimeout returns
    inflight,     \* lookups issued and not yet settled: [seq, q]
    issued,       \* number of lookups issued so far
    panel,        \* suggestionsContainer: [content, display]
    elapsed,      \* ms since the last input event, up to Delay
    lastEvent,    \* the event handled by the last step
    burstLen,     \* input events of the current burst, up to BurstCap
    burstReqs,    \* lookups issued since the current burst began
    burstQ,       \* q of the last lookup issued
    shortMark,    \* issued at the last short input (-1: none yet)
    newerArrived, \* a lookup issued after shortMark has settled
    failed        \* some lookup has ended in the catch handler

searchVars ==
    << value, timeout, timers, nextId, inflight, issued, panel, elapsed,
       lastEvent, burstLen, burstReqs, burstQ, shortMark, newerArrived, failed >>

\* ref: the sequence number of the lookup (fire, response), or the live timer
\* handle the event cancelled (input; 0 when it cancelled none).
Event(kind, v, ref, resp) == [kind |-> kind, value |-> v, ref |-> ref, resp |-> resp]

SearchInit ==
    /\ value = <<>>
    /\ timeout = 0
    /\ timers = {}
    /\ nextId = 1
    /\ inflight = {}
    /\ issued = 0
    /\ panel = [content |-> <<>>, display |-> ""]
    /\ elapsed = Delay
    /\ lastEvent = Event("init", <<>>, 0, NoResp)
    /\ burstLen = 0
    /\ burstReqs = 0
    /\ burstQ = <<>>
    /\ shortMark = -1
    /\ newerArrived = FALSE
    /\ failed = FALSE

\* ----------------------------------------------------------------- handlers
\* clearTimeout(timeout)
ClearTimeoutMutant(ts, handle) == ts
ClearTimeout(ts, handle) == { t \in ts : t.id # handle }

\* setTimeout(() => fetch(... query ...), 300)
NewTimerMutant(id, query) == [id |-> id, left |-> 2 * Delay, query |-> query]
NewTimer(id, query) == [id |-> id, left |-> Delay, query |-> query]

\* innerHTML = ''; style.display = 'none'
ClearedPanel == [content |-> <<>>, display |-> "none"]

\* A timer whose delay has run out and whose callback has not run yet.
DueTimers == { t \in timers : t.left = 0 }

\* searchInput 'input' listener, with the field holding v.  A timer that is
\* due runs before an event dispatched at or after its deadline.
Input(v) ==
    /\ DueTimers = {}
    /\ LET query == Trim(v)
           kept == ClearTimeout(timers, timeout)
       IN  /\ value' = v
           /\ IF IsShort(query)
              THEN /\ panel' = ClearedPanel
                   /\ timers' = kept
                   /\ UNCHANGED << timeout, nextId >>
                   /\ shortMark' = issued
                   /\ newerArrived' = FALSE
              ELSE /\ nextId <= MaxTimers
                   /\ timers' = kept \cup { NewTimer(nextId, query) }
                   /\ timeout' = nextId
                   /\ nextId' = nextId + 1
                   /\ UNCHANGED << panel, shortMark, newerArrived >>
    /\ elapsed' = 0
    /\ lastEvent' = Event("input", v,
                          IF \E t \in timers : t.id = timeout THEN timeout ELSE 0, NoResp)
    /\ burstLen' = IF elapsed >= Delay THEN 1 ELSE Min(burstLen + 1, BurstCap)
    /\ burstReqs' = IF elapsed >= Delay THEN 0 ELSE burstReqs
    /\ UNCHANGED << inflight, issued, burstQ, failed >>

\* The timer callback: fetch(`/api/search/suggest?q=${encodeURIComponent(query)}`)
TimerFire(t) ==
    /\ t \in DueTimers
    /\ timers' = timers \ {t}
    /\ issued' = issued + 1
    /\ inflight' = inflight \cup { [seq |-> issued + 1, q |-> EncodeURIComponent(t.query)] }
    /\ burstReqs' = burstReqs + 1
    /\ burstQ' = EncodeURIComponent(t.query)
    /\ lastEvent' = Event("fire", t.query, issued + 1, NoResp)
    /\ UNCHANGED << value, timeout, nextId, panel, elapsed, burstLen, shortMark,
                    newerArrived, failed >>

\* Whether the promise chain of a settled fetch ends in .catch: fetch rejected,
\* res.json() rejected, or data.map is not a function.
Throws(resp) == ~resp.net \/ resp.body # "array"

\* .catch(err => console.error('Search error:', err))
OnErrorMutant(p) == [p EXCEPT !.display = "none"]
OnError(p) == p

\* .then(data => { ... }) on a parsed array
OnDataMutant(p, data) ==
    IF Len(data) = 0
    THEN [p EXCEPT !.display = "block"]
    ELSE [content |-> RenderItems(data), display |-> "block"]
OnData(p, data) ==
    IF Len(data) = 0
    THEN [p EXCEPT !.display = "none"]
    ELSE [content |-> RenderItems(data), display |-> "block"]

\* fetch(...).then(res => res.json()).then(...).catch(...)
OnResponse(p, resp) == IF Throws(resp) THEN OnError(p) ELSE OnData(p, resp.data)

\* The fetch of request r settles with resp.
Respond(r, resp) ==
    /\ r \in inflight
    /\ inflight' = inflight \ {r}
    /\ panel' = OnResponse(panel, resp)
    /\ failed' = (failed \/ Throws(resp))
    /\ newerArrived' = (newerArrived \/ r.seq > shortMark)
    /\ lastEvent' = Event("response", <<>>, r.seq, resp)
    /\ UNCHANGED << value, timeout, timers, nextId, issued, elapsed, burstLen,
                    burstReqs, burstQ, shortMark >>

\* document 'click' listener; inside: the target is in the input or the panel.
OnClickMutant(p, inside) == IF inside THEN p ELSE ClearedPanel
OnClick(p, inside) == IF inside THEN p ELSE [p EXCEPT !.display = "none"]

Click(inside) ==
    /\ panel' = OnClick(panel, inside)
    /\ lastEvent' = Event(IF inside THEN "clickIn" ELSE "clickOut", <<>>, 0, NoResp)
    /\ UNCHANGED << value, timeout, timers, nextId, inflight, issued, elapsed,
                    burstLen, burstReqs, burstQ, shortMark, newerArrived, failed >>

\* Time passes, up to the next timer's deadline; a due timer runs first.
Tick ==
    /\ DueTimers = {}
    /\ elapsed < Delay \/ timers # {}
    /\ LET d == IF timers = {} THEN TickMs
                ELSE Min(TickMs, CHOOSE m \in { t.left : t \in timers } :
                                     \A t \in timers : m <= t.left)
       IN  /\ timers' = { [t EXCEPT !.left = t.left - d] : t \in timers }
           /\ elapsed' = Min(Delay, elapsed + d)
    /\ lastEvent' = Event("tick", <<>>, 0, NoResp)
    /\ UNCHANGED << value, timeout, nextId, inflight, issued, panel, burstLen,
                    burstReqs, burstQ, shortMark, newerArrived, failed >>

InputStep == \E v \in Values : Input(v)
FireStep == \E t \in timers : TimerFire(t)
RespondStep == \E r \in inflight, resp \in Responses : Respond(r, resp)
ClickStep == \E inside \in BOOLEAN : Click(inside)

SearchNext == InputStep \/ FireStep \/ RespondStep \/ ClickStep \/ Tick

\* ------------------------------------------------- numbers and their text
Digits == <<"0", "1", "2", "3", "4", "5", "6", "7", "8", "9">>
DigitSet == { Digits[i] : i \in 1..10 }
DigitVal(c) == CHOOSE d \in 0..9 : Digits[d + 1] = c

RECURSIVE ParseDigits(_, _)
ParseDigits(s, acc) ==
    IF s = <<>> \/ Head(s) \notin DigitSet THEN acc
    ELSE ParseDigits(Tail(s), acc * 10 + DigitVal(Head(s)))

\* parseInt on a text that holds a numeral: leading white space is skipped, a
\* sign is read, and the digits up to the first other character are the value.
ParseInt(s) ==
    LET t == TrimStart(s)
    IN  IF t # <<>> /\ Head(t) = "-" THEN 0 - ParseDigits(Tail(t), 0)
        ELSE ParseDigits(t, 0)

RECURSIVE NatToString(_)
NatToString(n) ==
    IF n < 10 THEN << Digits[n + 1] >>
    ELSE NatToString(n \div 10) \o << Digits[(n % 10) + 1] >>

\* The text a number becomes when it is assigned to textContent or to value.
NumToString(n) == IF n < 0 THEN <<"-">> \o NatToString(0 - n) ELSE NatToString(n)

Max(a, b) == IF a >= b THEN a ELSE b

\* ------------------------------------------------------------- star button
\* Number of clicks on the star button in one behaviour.
MaxClicks == 3

VARIABLES
    starBtn,     \* the button: [icon (classes of <i>), active, hasCount, count (text of <span>)]
    starPosts,   \* POSTs sent and not yet settled
    starSent,    \* POSTs sent so far
    starEvent,   \* the event handled by the last step: [kind, outcome]
    starHandled, \* some response has reached the .then handler
    starFailed   \* some POST has ended in the catch handler

starVars == << starBtn, starPosts, starSent, starEvent, starHandled, starFailed >>

\* What a POST may settle with: a JSON body whose status is starred, unstarred
\* or something else, the JSON value null, a body that is no JSON, or a
\* transport failure.
StarOutcomes == {"starred", "unstarred", "other", "null", "unparsable", "network"}

\* The outcomes that end in .catch: fetch rejected, response.json() rejected,
\* or data.status read from null.
StarThrows(outcome) == outcome \in {"null", "unparsable", "network"}

\* Count texts the page may be served with.
StarCounts == { <<"0">>, <<"1">>, <<" ", "2">> }

StarButtons ==
    [icon : {{"bi-star"}, {"bi-star-fill"}}, active : BOOLEAN, hasCount : BOOLEAN,
     count : StarCounts]

StarIdle ==
    /\ starBtn = [icon |-> {"bi-star"}, active |-> FALSE, hasCount |-> TRUE, count |-> <<"0">>]
    /\ starPosts = 0
    /\ starSent = 0
    /\ starEvent = [kind |-> "init", outcome |-> "none"]
    /\ starHandled = FALSE
    /\ starFailed = FALSE

StarInit ==
    /\ starBtn \in StarButtons
    /\ starPosts = 0
    /\ starSent = 0
    /\ starEvent = [kind |-> "init", outcome |-> "none"]
    /\ starHandled = FALSE
    /\ starFailed = FALSE

\* parseInt(countSpan.textContent) + 1
IncCount(n) == n + 1

\* Math.max(0, parseInt(countSpan.textContent) - 1)
DecCountMutant(n) == n - 1
DecCount(n) == Max(0, n - 1)

\* if (data.status === 'starred') { ... }
OnStarred(b) ==
    [b EXCEPT !.icon = (b.icon \ {"bi-star"}) \cup {"bi-star-fill"},
              !.active = TRUE,
              !.count = IF b.hasCount THEN NumToString(IncCount(ParseInt(b.count)))
                        ELSE b.count]

\* else { ... }
OnUnstarred(b) ==
    [b EXCEPT !.icon = (b.icon \ {"bi-star-fill"}) \cup {"bi-star"},
              !.active = FALSE,
              !.count = IF b.hasCount THEN NumToString(DecCount(ParseInt(b.count)))
                        ELSE b.count]

\* .catch(err => console.error('Star error:', err))
OnStarErrorMutant(b) == [b EXCEPT !.active = FALSE]
OnStarError(b) == b

\* .then(response => response.json()).then(data => ...).catch(...)
OnStarResponse(b, outcome) ==
    IF StarThrows(outcome) THEN OnStarError(b)
    ELSE IF outcome = "starred" THEN OnStarred(b) ELSE OnUnstarred(b)

\* The click listener: fetch(`/star/${type}/${id}`, {method: 'POST'})
StarClick ==
    /\ starSent < MaxClicks
    /\ starPosts' = starPosts + 1
    /\ starSent' = starSent + 1
    /\ starEvent' = [kind |-> "click", outcome |-> "none"]
    /\ UNCHANGED << starBtn, starHandled, starFailed >>

\* One POST in flight settles with outcome.
StarRespond(outcome) ==
    /\ starPosts > 0
    /\ starPosts' = starPosts - 1
    /\ starBtn' = OnStarResponse(starBtn, outcome)
    /\ starEvent' = [kind |-> "response", outcome |-> outcome]
    /\ starHandled' = (starHandled \/ ~StarThrows(outcome))
    /\ starFailed' = (starFailed \/ StarThrows(outcome))
    /\ UNCHANGED starSent

StarRespondStep == \E outcome \in StarOutcomes : StarRespond(outcome)

\* ------------------------------------------------------------ rating input
\* Number of <i> stars in the rating container.
NumStars == 3

VARIABLES
    ratingStars,  \* classes of each star, by 0-based index
    ratingValue,  \* value of the hidden input (text)
    ratingLast,   \* 0-based index of the last star clicked (-1: none yet)
    ratingEvent   \* the event handled by the last step: [kind, index]

ratingVars == << ratingStars, ratingValue, ratingLast, ratingEvent >>

StarIndexes == 0..(NumStars - 1)

RatingIdle ==
    /\ ratingStars = [i \in StarIndexes |-> {"bi-star"}]
    /\ ratingValue = <<>>
    /\ ratingLast = -1
    /\ ratingEvent = [kind |-> "init", index |-> 0]

\* The page is served with any stars filled and with or without a value.
RatingInit ==
    /\ ratingStars \in [StarIndexes -> {{"bi-star"}, {"bi-star-fill"}}]
    /\ ratingValue \in { <<>>, <<"2">> }
    /\ ratingLast = -1
    /\ ratingEvent = [kind |-> "init", index |-> 0]

\* if (i < value)
FillsMutant(i, v) == i <= v
Fills(i, v) == i < v

\* star 'click' listener of the star at index
RatingClick(index) ==
    LET v == index + 1
    IN  /\ ratingValue' = NumToString(v)
        /\ ratingStars' =
             [i \in StarIndexes |->
                IF Fills(i, v)
                THEN (ratingStars[i] \ {"bi-star"}) \cup {"bi-star-fill"}
                ELSE (ratingStars[i] \ {"bi-star-fill"}) \cup {"bi-star"}]
        /\ ratingLast' = index
        /\ ratingEvent' = [kind |-> "click", index |-> index]

\* star 'mouseenter' listener of the star at index
RatingEnter(index) ==
    /\ ratingStars' =
         [i \in StarIndexes |->
            IF i <= index THEN ratingStars[i] \cup {"text-warning"} ELSE ratingStars[i]]
    /\ ratingEvent' = [kind |-> "mouseenter", index |-> index]
    /\ UNCHANGED << ratingValue, ratingLast >>

\* star 'mouseleave' listener of the star at index
RatingLeave(index) ==
    /\ ratingStars' = [i \in StarIndexes |-> ratingStars[i] \ {"text-warning"}]
    /\ ratingEvent' = [kind |-> "mouseleave", index |-> index]
    /\ UNCHANGED << ratingValue, ratingLast >>

RatingClickStep == \E index \in StarIndexes : RatingClick(index)
RatingEnterStep == \E index \in StarIndexes : RatingEnter(index)
RatingLeaveStep == \E index \in StarIndexes : RatingLeave(index)

\* --------------------------------------------------------------- mobile nav
\* Scroll positions are multiples of ScrollStep, up to MaxScrollSteps of them.
ScrollStep == 50
MaxScrollSteps == 8
\* scrollTop > 100
NavThreshold == 100

VARIABLES
    lastScrollTop, \* let lastScrollTop
    navTransform,  \* mobileNav.style.transform
    navEvent       \* the scroll event handled by the last step: [kind, y, prev]

navVars == << lastScrollTop, navTransform, navEvent >>

ScrollPositions ==
    { n * ScrollStep : n \in 0..MaxScrollSteps } \cup { NavThreshold - 1, NavThreshold + 1 }

NavInit ==
    /\ lastScrollTop = 0
    /\ navTransform = ""
    /\ navEvent = [kind |-> "init", y |-> 0, prev |-> 0]

\* window.pageYOffset || document.documentElement.scrollTop
ReadScrollTop(pageYOffset, docScrollTop) ==
    IF pageYOffset # 0 THEN pageYOffset ELSE docScrollTop

\* if (scrollTop > lastScrollTop && scrollTop > 100)
NavHidesMutant(scrollTop, last) == scrollTop > last /\ scrollTop >= NavThreshold
NavHides(scrollTop, last) == scrollTop > last /\ scrollTop > NavThreshold

\* window 'scroll' listener, with the page scrolled to y; docScrollTop is what
\* document.documentElement.scrollTop reads (y, or 0 in quirks mode).
Scroll(y, docScrollTop) ==
    LET scrollTop == ReadScrollTop(y, docScrollTop)
    IN  /\ navTransform' = IF NavHides(scrollTop, lastScrollTop)
                           THEN "translateY(100%)" ELSE "translateY(0)"
        /\ lastScrollTop' = scrollTop
        /\ navEvent' = [kind |-> "scroll", y |-> y, prev |-> lastScrollTop]

ScrollStepTo == \E y \in ScrollPositions : \E d \in {y, 0} : Scroll(y, d)

\* ------------------------------------------------------------------- alerts
\* Number of .alert elements on the page at load.
NumAlerts == 2
\* Granularity of the alerts' clock, in milliseconds.
AlertTickMs == 500
\* initAutoHideAlerts: setTimeout(..., 5000)
FadeDelay == 5000
\* initAutoHideAlerts: setTimeout(() => alert.remove(), 500)
RemoveDelay == 500
\* main.js: setTimeout(function() { ... close() ... }, 5000)
CloseDelay == 5000

VARIABLES
    scriptsLoaded, \* the scripts of the page: "part_000", "main.js"
    alertPerm,     \* whether each alert has class alert-permanent
    alerts,        \* each alert: [present, opacity, fadedAt, removedAt]
    alertTimers,   \* live timers: [kind, alert, left]
    alertNow       \* ms since DOMContentLoaded

alertVars == << scriptsLoaded, alertPerm, alerts, alertTimers, alertNow >>

AlertIds == 1..NumAlerts

FreshAlert == [present |-> TRUE, opacity |-> "", fadedAt |-> -1, removedAt |-> -1]

\* No script loaded: nothing is scheduled.
AlertsIdle ==
    /\ scriptsLoaded = {}
    /\ alertPerm = [a \in AlertIds |-> FALSE]
    /\ alerts = [a \in AlertIds |-> FreshAlert]
    /\ alertTimers = {}
    /\ alertNow = 0

\* The timers the DOMContentLoaded listeners of the loaded scripts schedule.
LoadTimers(scripts, perm) ==
    (IF "part_000" \in scripts
     THEN { [kind |-> "fade", alert |-> a, left |-> FadeDelay] : a \in { x \in AlertIds : ~perm[x] } }
     ELSE {})
    \cup
    (IF "main.js" \in scripts THEN { [kind |-> "close", alert |-> 0, left |-> CloseDelay] } ELSE {})

AlertsInit ==
    /\ scriptsLoaded \in (SUBSET {"part_000", "main.js"}) \ {{}}
    /\ alertPerm \in [AlertIds -> BOOLEAN]
    /\ alerts = [a \in AlertIds |-> FreshAlert]
    /\ alertTimers = LoadTimers(scriptsLoaded, alertPerm)
    /\ alertNow = 0

DueAlertTimers == { t \in alertTimers : t.left = 0 }

\* alert.remove(), and the removal bootstrap's Alert.close() ends in.
Removed(al, now) ==
    IF al.present THEN [al EXCEPT !.present = FALSE, !.removedAt = now] ELSE al

\* initAutoHideAlerts, outer callback: opacity = '0', then setTimeout(remove, 500)
AlertFade(t) ==
    /\ t \in DueAlertTimers /\ t.kind = "fade"
    /\ alerts' = [alerts EXCEPT ![t.alert] =
                    [@ EXCEPT !.opacity = "0",
                              !.fadedAt = IF @ = -1 THEN alertNow ELSE @]]
    /\ alertTimers' = (alertTimers \ {t})
                        \cup { [kind |-> "remove", alert |-> t.alert, left |-> RemoveDelay] }
    /\ UNCHANGED << scriptsLoaded, alertPerm, alertNow >>

\* initAutoHideAlerts, inner callback: alert.remove()
AlertRemove(t) ==
    /\ t \in DueAlertTimers /\ t.kind = "remove"
    /\ alerts' = [alerts EXCEPT ![t.alert] = Removed(@, alertNow)]
    /\ alertTimers' = alertTimers \ {t}
    /\ UNCHANGED << scriptsLoaded, alertPerm, alertNow >>

\* main.js callback: every .alert of the document is closed, whatever its
\* classes; close() removes an alert that has no fade class at once.
AlertsClose(t) ==
    /\ t \in DueAlertTimers /\ t.kind = "close"
    /\ alerts' = [a \in AlertIds |-> Removed(alerts[a], alertNow)]
    /\ alertTimers' = alertTimers \ {t}
    /\ UNCHANGED << scriptsLoaded, alertPerm, alertNow >>

\* Time passes, up to the next timer's deadline; a due timer runs first.
AlertTick ==
    /\ alertTimers # {} /\ DueAlertTimers = {}
    /\ LET d == Min(AlertTickMs, CHOOSE m \in { t.left : t \in alertTimers } :
                                   \A t \in alertTimers : m <= t.left)
       IN  /\ alertTimers' = { [t EXCEPT !.left = t.left - d] : t \in alertTimers }
           /\ alertNow' = alertNow + d
    /\ UNCHANGED << scriptsLoaded, alertPerm, alerts >>

AlertFadeStep == \E t \in alertTimers : AlertFade(t)
AlertRemoveStep == \E t \in alertTimers : AlertRemove(t)
AlertsCloseStep == \E t \in alertTimers : AlertsClose(t)

\* --------------------------------------------------------- validateFileSize
\* Largest maxSizeMB passed, and largest number of files selected.
MaxMB == 2
MaxFiles == 2

VARIABLES
    fileSel,     \* input.files, as the sequence of the files' sizes in bytes
    fileMaxMB,   \* the maxSizeMB the form passes
    fileBefore,  \* input.files when validateFileSize was last called
    fileResult,  \* what the last call returned: "true", "false" ("none": no call yet)
    fileAlerted  \* index of the file the last call's alert named (0: no alert)

fileVars == << fileSel, fileMaxMB, fileBefore, fileResult, fileAlerted >>

\* const maxSize = maxSizeMB * 1024 * 1024
MaxBytes(maxSizeMB) == maxSizeMB * 1024 * 1024

FileSizes == {0} \cup { MaxBytes(m) + d : m \in 1..MaxMB, d \in {-1, 0, 1} }

FileLists == UNION { [1..n -> FileSizes] : n \in 0..MaxFiles }

FileIdle ==
    /\ fileSel = <<>>
    /\ fileMaxMB = 1
    /\ fileBefore = <<>>
    /\ fileResult = "none"
    /\ fileAlerted = 0

\* The user has selected any files, in a form that allows any maxSizeMB.
FileInit ==
    /\ fileSel \in FileLists
    /\ fileMaxMB \in 0..MaxMB
    /\ fileBefore = <<>>
    /\ fileResult = "none"
    /\ fileAlerted = 0

\* if (files[i].size > maxSize)
TooLargeMutant(size, maxSize) == size >= maxSize
TooLarge(size, maxSize) == size > maxSize

\* for (let i = 0; i < files.length; i++): the 1-based index of the first file
\* that is too large, from i on, or 0 when the loop runs to its end.
RECURSIVE FirstTooLarge(_, _, _)
FirstTooLarge(files, i, maxSize) ==
    IF i > Len(files) THEN 0
    ELSE IF TooLarge(files[i], maxSize) THEN i
    ELSE FirstTooLarge(files, i + 1, maxSize)

\* validateFileSize(input, maxSizeMB): what it returns, what input.files is
\* afterwards (input.value = '' empties the selection), which file it alerted.
ValidateFileSize(files, maxSizeMB) ==
    LET k == FirstTooLarge(files, 1, MaxBytes(maxSizeMB))
    IN  [returns |-> (k = 0), files |-> IF k = 0 THEN files ELSE <<>>, alerted |-> k]

\* The form calls validateFileSize(input, fileMaxMB).
FileValidate ==
    LET r == ValidateFileSize(fileSel, fileMaxMB)
    IN  /\ fileBefore' = fileSel
        /\ fileSel' = r.files
        /\ fileResult' = IF r.returns THEN "true" ELSE "false"
        /\ fileAlerted' = r.alerted
        /\ UNCHANGED fileMaxMB

\* ----------------------------------------------------------- specifications
widgetVars == << starVars, ratingVars, navVars, alertVars, fileVars >>

vars == << searchVars, widgetVars >>

WidgetsIdle == StarIdle /\ RatingIdle /\ NavInit /\ AlertsIdle /\ FileIdle

\* The search controller, the widgets idle.
Init == SearchInit /\ WidgetsIdle

Next ==
    \/ InputStep /\ UNCHANGED widgetVars
    \/ FireStep /\ UNCHANGED widgetVars
    \/ RespondStep /\ UNCHANGED widgetVars
    \/ ClickStep /\ UNCHANGED widgetVars
    \/ Tick /\ UNCHANGED widgetVars

Spec == Init /\ [][Next]_vars

\* The star button, everything else idle.
InitStar == SearchInit /\ StarInit /\ RatingIdle /\ NavInit /\ AlertsIdle /\ FileIdle

exceptStar == << searchVars, ratingVars, navVars, alertVars, fileVars >>

NextStar ==
    \/ StarClick /\ UNCHANGED exceptStar
    \/ StarRespondStep /\ UNCHANGED exceptStar

SpecStar == InitStar /\ [][NextStar]_vars

\* The rating input, everything else idle.
InitRating == SearchInit /\ StarIdle /\ RatingInit /\ NavInit /\ AlertsIdle /\ FileIdle

exceptRating == << searchVars, starVars, navVars, alertVars, fileVars >>

NextRating ==
    \/ RatingClickStep /\ UNCHANGED exceptRating
    \/ RatingEnterStep /\ UNCHANGED exceptRating
    \/ RatingLeaveStep /\ UNCHANGED exceptRating

SpecRating == InitRating /\ [][NextRating]_vars

\* The mobile nav, everything else idle.
exceptNav == << searchVars, starVars, ratingVars, alertVars, fileVars >>

NextNav == ScrollStepTo /\ UNCHANGED exceptNav

SpecNav == Init /\ [][NextNav]_vars

\* The alerts, everything else idle.
InitAlerts == SearchInit /\ StarIdle /\ RatingIdle /\ NavInit /\ AlertsInit /\ FileIdle

exceptAlerts == << searchVars, starVars, ratingVars, navVars, fileVars >>

NextAlerts ==
    \/ AlertFadeStep /\ UNCHANGED exceptAlerts
    \/ AlertRemoveStep /\ UNCHANGED exceptAlerts
    \/ AlertsCloseStep /\ UNCHANGED exceptAlerts
    \/ AlertTick /\ UNCHANGED exceptAlerts

SpecAlerts == InitAlerts /\ [][NextAlerts]_vars

\* validateFileSize, everything else idle.
exceptFile == << searchVars, starVars, ratingVars, navVars, alertVars >>

InitFile == SearchInit /\ StarIdle /\ RatingIdle /\ NavInit /\ AlertsIdle /\ FileInit

NextFile == FileValidate /\ UNCHANGED exceptFile

SpecFile == InitFile /\ [][NextFile]_vars

\* ------------------------------------------------------------------ claims
ResponseStep == lastEvent'.kind = "response"
InputEvent(e) == e.kind = "input"
LongText(v) == Len(Trim(v)) >= MinQueryLen

\* The entries the panel shows to the user: its content while it is displayed.
Shown(p) == IF p.display = "block" THEN p.content ELSE <<>>

\* C1: only the response of the most recently issued lookup may change what
\* the panel shows: when the response of the latest lookup has arrived, the
\* late response of an earlier lookup leaves the panel showing what it showed.
C1_OnlyLatestRenders ==
    [][ (/\ ResponseStep
         /\ lastEvent'.ref < issued
         /\ \A r \in inflight : r.seq # issued)
        => Shown(panel') = Shown(panel) ]_vars

\* A burst is over: the quiet period of Delay ms has passed and no timer waits.
BurstOver == burstLen > 0 /\ elapsed >= Delay /\ timers = {}

\* C2 (as stated): once a burst of input events is over, exactly one lookup
\* has been issued since it began, for the final query string.
C2_OneRequestPerBurst ==
    BurstOver => burstReqs = 1 /\ burstQ = EncodeURIComponent(Trim(value))

\* C2 (amended): while a burst lasts no lookup is issued; once it is over,
\* exactly one lookup has been issued, for the trimmed final text, when that
\* text has at least 2 characters, and none when it is shorter.
C2_OneRequestPerLongBurst ==
    /\ (burstLen > 0 /\ ~BurstOver) => burstReqs = 0
    /\ BurstOver =>
         IF LongText(value)
         THEN burstReqs = 1 /\ burstQ = EncodeURIComponent(Trim(value))
         ELSE burstReqs = 0

\* A burst of several events has ended and issued its one lookup.
C2_Witness == BurstOver /\ burstLen >= 2 /\ burstReqs = 1 /\ LongText(value)

\* C3: an input event whose trimmed text has fewer than 2 characters empties
\* and hides the panel, leaves no timer pending and issues no lookup.
C3_ShortInputClears ==
    [][ (InputEvent(lastEvent') /\ ~LongText(lastEvent'.value)) =>
          /\ panel' = [content |-> <<>>, display |-> "none"]
          /\ timers' = {}
          /\ nextId' = nextId
          /\ issued' = issued
          /\ inflight' = inflight ]_vars

\* A short input has just cancelled a pending timer and left the panel empty
\* and hidden.
C3_Witness ==
    /\ InputEvent(lastEvent) /\ ~LongText(lastEvent.value)
    /\ lastEvent.ref # 0
    /\ timers = {}
    /\ panel = [content |-> <<>>, display |-> "none"]

\* C4: after a short input the panel stays hidden and empty until the response
\* of a lookup issued after that input arrives; the responses of the lookups
\* that were in flight at the short input are discarded.
C4_ShortInputDiscardsInFlight ==
    (shortMark >= 0 /\ ~newerArrived) => panel = [content |-> <<>>, display |-> "none"]

\* C5: rendering a response that carries an empty array hides the panel and
\* empties its content.
C5_EmptyArrayClears ==
    [][ (/\ ResponseStep
         /\ lastEvent'.resp.net /\ lastEvent'.resp.status = 200
         /\ lastEvent'.resp.body = "array" /\ lastEvent'.resp.data = <<>>)
        => panel' = [content |-> <<>>, display |-> "none"] ]_vars

\* C6: rendering a response that carries a non-empty array shows the panel
\* with one entry per suggestion, in order, linking to the suggestion's url,
\* labelled with its name, with the folder icon for type folder and the file
\* icon otherwise.
C6_RenderOneEntryPerSuggestion ==
    [][ (/\ ResponseStep
         /\ lastEvent'.resp.net /\ lastEvent'.resp.status = 200
         /\ lastEvent'.resp.body = "array" /\ lastEvent'.resp.data # <<>>)
        => LET d == lastEvent'.resp.data
           IN  /\ panel'.display = "block"
               /\ panel'.content =
                    [i \in 1..Len(d) |->
                       [href |-> d[i].url,
                        icon |-> IF d[i].type = "folder" THEN "bi-folder"
                                 ELSE "bi-file-earmark",
                        label |-> d[i].name]] ]_vars

C8_FailureKeepsPanel ==
    [][ (ResponseStep /\ (~lastEvent'.resp.net \/ lastEvent'.resp.body = "malformed"))
        => /\ panel' = panel
           /\ issued' = issued
           /\ timers' = timers
           /\ nextId' = nextId
           /\ inflight' \subseteq inflight ]_vars

\* A transport failure has arrived while the panel shows suggestions.
C8_Witness ==
    /\ lastEvent.kind = "response" /\ ~lastEvent.resp.net
    /\ panel.display = "block" /\ panel.content # <<>>

\* C9: a response whose status is not 2xx leaves the panel as it was, whatever
\* its body.
C9_Non2xxKeepsPanel ==
    [][ (/\ ResponseStep
         /\ lastEvent'.resp.net /\ lastEvent'.resp.status \div 100 # 2)
        => panel' = panel ]_vars

\* C10: once a lookup has failed (transport, parse or render), an input with
\* at least 2 characters still replaces the pending timer by one new timer of
\* Delay ms for the trimmed text, a short input still empties and hides the
\* panel, and a timer that runs out still issues the lookup of its text.
C10_FailureDoesNotDisable ==
    [][ failed =>
          /\ (InputEvent(lastEvent') /\ LongText(lastEvent'.value)) =>
                /\ timeout' = nextId
                /\ timers' = { [id |-> nextId, left |-> Delay,
                                query |-> Trim(lastEvent'.value)] }
          /\ (InputEvent(lastEvent') /\ ~LongText(lastEvent'.value)) =>
                /\ panel' = [content |-> <<>>, display |-> "none"]
                /\ timers' = {}
          /\ lastEvent'.kind = "fire" =>
                /\ issued' = issued + 1
                /\ inflight' = inflight \cup
                     { [seq |-> issued + 1, q |-> EncodeURIComponent(lastEvent'.value)] } ]_vars

\* After a failed lookup, a long input has cancelled a pending timer and
\* scheduled its own.
C10_Witness ==
    /\ failed
    /\ InputEvent(lastEvent) /\ LongText(lastEvent.value) /\ lastEvent.ref # 0
    /\ \E t \in timers : t.id = timeout /\ t.left = Delay

\* C11: the debounce timer is a single slot: at most one timer is live in
\* every reachable state.
C11_SingleTimerSlot == Cardinality(timers) <= 1

\* A long input has superseded a timer that was still pending: the handle it
\* stored names the one live timer.
C11_Witness ==
    /\ InputEvent(lastEvent) /\ lastEvent.ref # 0 /\ lastEvent.ref # timeout
    /\ Cardinality(timers) = 1
    /\ \A t \in timers : t.id = timeout

\* C12: the panel is never displayed while its content is empty.
C12_VisibleHasContent == panel.display = "block" => panel.content # <<>>

\* The non-empty response of a second or later lookup has just been rendered
\* and the panel is displayed.
C12_Witness ==
    /\ lastEvent.kind = "response" /\ lastEvent.resp.data # <<>>
    /\ panel.display = "block" /\ Len(panel.content) = Len(lastEvent.resp.data)
    /\ issued >= 2

\* The number the count span displays.
StarNumber == ParseInt(starBtn.count)
StarFilled == "bi-star-fill" \in starBtn.icon /\ "bi-star" \notin starBtn.icon
StarHandledStep == starEvent'.kind = "response" /\ starEvent'.outcome \in {"starred", "unstarred", "other"}

\* C13: the displayed count of a star button with a count span is never below
\* 0; a handled response adds 1 when its status is starred and otherwise
\* subtracts 1 but not below 0; and once a response has been handled the button
\* has class active exactly when its icon is the filled star.
C13_StarCountAndClass ==
    /\ [](starBtn.hasCount => StarNumber >= 0)
    /\ [](starHandled => (starBtn.active <=> StarFilled))
    /\ [][ (StarHandledStep /\ starBtn.hasCount) =>
             ParseInt(starBtn'.count) =
                IF starEvent'.outcome = "starred" THEN StarNumber + 1
                ELSE IF StarNumber >= 1 THEN StarNumber - 1 ELSE 0 ]_vars

\* An unstarred response has been handled at count 0, after an earlier POST:
\* the count stays 0 and the star is empty and not active.
C13_Witness ==
    /\ starEvent = [kind |-> "response", outcome |-> "unstarred"]
    /\ starBtn.hasCount /\ starBtn.count = <<"0">>
    /\ ~starBtn.active /\ starBtn.icon = {"bi-star"}
    /\ starSent >= 2

\* C14: a POST that fails (transport failure or unparsable body) leaves icon,
\* active class and count as they were, and a click after a failure still sends
\* a new POST.
C14_StarFailureKeepsButton ==
    [][ /\ (starEvent'.kind = "response" /\ starEvent'.outcome \in {"network", "unparsable"})
            => starBtn' = starBtn /\ starSent' = starSent
        /\ (starFailed /\ starEvent'.kind = "click")
            => starPosts' = starPosts + 1 /\ starSent' = starSent + 1 ]_vars

\* After a failed POST on an active, filled button a later click has sent a
\* new POST.
C14_Witness ==
    /\ starFailed /\ ~starHandled
    /\ starEvent.kind = "click" /\ starPosts >= 1
    /\ starBtn.active /\ StarFilled

RatingFilled(stars, i) == "bi-star-fill" \in stars[i] /\ "bi-star" \notin stars[i]
RatingHoverStep == ratingEvent'.kind \in {"mouseenter", "mouseleave"}

\* C15: once a star has been clicked, the hidden input's value is the 1-based
\* position of the last clicked star and star i (0-based) is filled exactly
\* when i is less than that value; mouseenter and mouseleave change neither the
\* value nor which stars are filled; after a mouseleave no star carries the
\* hover highlight.
C15_RatingFollowsLastClick ==
    /\ [](ratingLast >= 0 =>
            /\ ratingValue = NumToString(ratingLast + 1)
            /\ ParseInt(ratingValue) = ratingLast + 1
            /\ \A i \in StarIndexes :
                 /\ RatingFilled(ratingStars, i) <=> i < ratingLast + 1
                 /\ "bi-star" \in ratingStars[i] <=> ~(i < ratingLast + 1))
    /\ [][ /\ RatingHoverStep =>
                /\ ratingValue' = ratingValue
                /\ \A i \in StarIndexes :
                     RatingFilled(ratingStars', i) <=> RatingFilled(ratingStars, i)
           /\ ratingEvent'.kind = "mouseleave" =>
                \A i \in StarIndexes : "text-warning" \notin ratingStars'[i] ]_vars

\* The pointer has left the stars after hovering over a rating whose last
\* click was on the middle star.
C15_Witness ==
    /\ ratingEvent.kind = "mouseleave"
    /\ ratingLast = 1 /\ ratingValue = <<"2">>
    /\ RatingFilled(ratingStars, 0) /\ RatingFilled(ratingStars, 1)
    /\ ~RatingFilled(ratingStars, 2)

\* C16: after every scroll event the nav is hidden exactly when the new scroll
\* position is greater than the position recorded at the previous scroll event
\* and greater than 100, and shown otherwise; the recorded position becomes the
\* new position.
C16_NavFollowsScroll ==
    [][ navEvent'.kind = "scroll" =>
          /\ navEvent'.prev = lastScrollTop
          /\ navTransform' = IF navEvent'.y > lastScrollTop /\ navEvent'.y > 100
                             THEN "translateY(100%)" ELSE "translateY(0)"
          /\ lastScrollTop' = navEvent'.y ]_vars

\* A scroll down that ends exactly at 100 has left the nav shown.
C16_Witness ==
    /\ navEvent.kind = "scroll" /\ navEvent.y = 100 /\ navEvent.prev < 100
    /\ lastScrollTop = 100
    /\ navTransform = "translateY(0)"

\* C17: an alert without class alert-permanent is faded 5 seconds after page
\* load and removed 0.5 seconds after the fade starts, and not otherwise; an
\* alert with class alert-permanent is never faded or removed.
C17_AlertAutoHide ==
    \A a \in AlertIds :
        IF alertPerm[a]
        THEN alerts[a].present /\ alerts[a].opacity = ""
        ELSE /\ alerts[a].fadedAt \in {-1, 5000}
             /\ alerts[a].removedAt \in {-1, 5500}
             /\ alerts[a].removedAt # -1 => alerts[a].fadedAt = 5000
             /\ alertNow > 5000 => alerts[a].fadedAt = 5000
             /\ alertNow > 5500 => ~alerts[a].present

\* C18: validateFileSize returns true exactly when no selected file is larger
\* than maxSizeMB * 1024 * 1024 bytes; when it returns false the selection is
\* emptied, when it returns true the selection is as it was.
C18_ValidateFileSize ==
    fileResult # "none" =>
        /\ fileResult = "true" <=>
              \A i \in 1..Len(fileBefore) : fileBefore[i] <= fileMaxMB * 1024 * 1024
        /\ fileResult = "false" => fileSel = <<>>
        /\ fileResult = "true" => fileSel = fileBefore

\* A selection of two files, one of exactly the maximum size, was accepted
\* and kept.
C18_Witness ==
    /\ fileResult = "true" /\ fileMaxMB = 1
    /\ Len(fileBefore) = 2 /\ fileSel = fileBefore
    /\ \E i \in 1..2 : fileBefore[i] = 1024 * 1024

=============================================================================
